---- MODULE Spec2Model ----
(***************************************************************************)
(* A model of src/bot.py: the Telegram topic handler (handle_topic), the   *)
(* publishing pipeline of ArticleGenerator and its slot resolver           *)
(* (_find_next_available_date), together with the content backend's list   *)
(* of scheduled ("future") posts.  Calendar dates of the reference         *)
(* timezone are day numbers; a request's position in the code is a label   *)
(* named after the source line it is about to execute.                     *)
(***************************************************************************)
EXTENDS Integers, Sequences, FiniteSets, TLC

\* ---------------------------------------------------------------- bounds
MaxRequests == 2
MaxToday == 1
MaxSeedDay == 2

\* ------------------------------------------------------ program constants
\* 'per_page': 100 in _get_scheduled_posts
PerPage == 100

\* .replace(hour=6, minute=3, second=0, microsecond=0)
FixedHour == 6
FixedMinute == 3

Requests == 1..MaxRequests

\* The value of a date that has not been computed, and the author of a post
\* that no request of this run created.
Absent == 0 - 1
NoDate == Absent
NoRequest == Absent

VARIABLES
    today,            \* date(now) in the reference timezone
    posts,            \* the backend's posts in 'future' status
    pc,               \* pc[r]: the line request r is about to execute
    caller,           \* caller[r]: who called _find_next_available_date
    err,              \* err[r]: the step whose exception reached the handler
    log,              \* log[r]: the remote calls and replies r has issued
    nowDate,          \* nowDate[r]: date of `now` read at line 226
    check_date,       \* check_date[r]: the resolver's candidate
    scheduled_posts,  \* scheduled_posts[r]: the page the listing returned
    scheduled_dates,  \* scheduled_dates[r]: the dates parsed from the page
    iters,            \* iters[r]: evaluations of the while condition (248)
    publication_date, \* publication_date[r]: slot resolved in publish (313)
    announced,        \* announced[r]: slot resolved in handle_topic (374)
    created,          \* created[r]: date of the post r created, or NoDate
    collided,         \* collided[r]: that date already held a future post
    media,            \* the requests in view whose uploaded image is in the
                      \* media library
    machine_off,      \* UTC offset (minutes) of the machine's local timezone
    tzinfo,           \* tzinfo[r]: UTC offset (minutes) carried by r's `now`
    reflected,        \* reflected[r]: the page listed for line 374 held the
                      \* post r created
    field,            \* the field of the article a generated text is
    raw,              \* the text as generated (the JSON of line 130)
    value,            \* article[field]
    formatted,        \* article[field] after lines 133-135
    tpc,              \* the line generate_article is about to execute
    probe,            \* a text handed to _format_qloga_mentions
    prev,             \* the text before the last call of it
    calls             \* the calls of _format_qloga_mentions on probe

vars == <<today, posts, pc, caller, err, log, nowDate, check_date,
          scheduled_posts, scheduled_dates, iters, publication_date,
          announced, created, collided, media, machine_off, tzinfo,
          reflected, field, raw, value, formatted, tpc, probe, prev, calls>>

pipelineVars == <<today, posts, pc, caller, err, log, nowDate, check_date,
                  scheduled_posts, scheduled_dates, iters, publication_date,
                  announced, created, collided, media, machine_off, tzinfo,
                  reflected>>

textVars == <<field, raw, value, formatted, tpc, probe, prev, calls>>

resolverVars == <<nowDate, check_date, scheduled_posts, scheduled_dates, iters>>

\* What most steps of the handler leave alone.
restFrame == <<textVars, media, machine_off, tzinfo, reflected>>

\* ------------------------------------------------------- backend records
\* How a listed post's 'date_gmt' reaches line 240:
\*   "ok"     a well-formed timestamp string without a UTC designator, as
\*            the backend writes it ("2024-03-02T06:03:00")
\*   "okz"    a well-formed timestamp string ending in "Z"
\*   "nokey"  the key is absent                  (KeyError)
\*   "badstr" a string fromisoformat rejects     (ValueError)
\*   "null"   a value that is not a string       (AttributeError on .replace)
Kinds == {"ok", "okz", "nokey", "badstr", "null"}

\* The day the clocks of the reference timezone go forward: the last day a
\* post of another author can be waiting on.
ClockChange == MaxSeedDay

\* utcoffset() of Europe/London on day d, in minutes: GMT, then BST.
LondonOffset(d) == IF d >= ClockChange THEN 60 ELSE 0

\* Timestamps are minutes since 00:00 UTC of day 0.  DateGmt is line 317:
\* the wall-clock FixedHour:FixedMinute of `day`, less the UTC offset the
\* datetime carries.
DateGmt(day, off) == day * (24 * 60) + FixedHour * 60 + FixedMinute - off

\* A post: its author, how its 'date_gmt' reads, its date in the reference
\* timezone and the instant its 'date_gmt' denotes.
PostAt(by, kind, day, gmt) == [by |-> by, kind |-> kind, day |-> day, gmt |-> gmt]

\* A post scheduled at FixedHour:FixedMinute of the reference timezone.
Post(by, kind, day) == PostAt(by, kind, day, DateGmt(day, LondonOffset(day)))

SeedPosts ==
    {Post(NoRequest, "ok", d) : d \in 1..MaxSeedDay}
        \cup {Post(NoRequest, "nokey", 1), Post(NoRequest, "badstr", 2),
              Post(NoRequest, "null", 1)}

FullBackend(k) == {Post(NoRequest, "ok", d) : d \in 1..k}

InitBackends == SUBSET SeedPosts

\* The backends a run starts from where the reading of a well-formed
\* date_gmt is at stake: tomorrow's post, written without and with the
\* designator.  (An ill-formed record never reaches line 241.)
ZonedBackends == SUBSET {Post(NoRequest, "ok", 1), Post(NoRequest, "okz", 1)}

\* The UTC offsets, in minutes, of the machines the bot is run on: one whose
\* local time is UTC and one at UTC+9.
MachineOffsets == {0, 9 * 60}

\* ------------------------------------------------- reservation listing
Days(P) == {p.day : p \in P}

\* The pages a listing of P can be: everything when it fits, else the PerPage
\* newest posts (the backend's default order, newest date first; posts of
\* the cut-off date in any order).  No 'page' or 'orderby' is ever sent.
Pages(P) ==
    IF Cardinality(P) <= PerPage THEN {P}
    ELSE LET cut == CHOOSE d \in Days(P) :
                       /\ Cardinality({p \in P : p.day > d}) < PerPage
                       /\ Cardinality({p \in P : p.day >= d}) >= PerPage
             above == {p \in P : p.day > cut}
             ties == {p \in P : p.day = cut}
         IN  {above \cup T : T \in {U \in SUBSET ties :
                                      Cardinality(U) = PerPage - Cardinality(above)}}

\* Lines 238-245 for one record: "date" appends its date, "skip" is the
\* except clause (KeyError, ValueError), "raise" leaves the function.
ParseOutcome(p) ==
    CASE p.kind = "ok" -> "date"
      [] p.kind = "okz" -> "date"
      [] p.kind = "nokey" -> "skip"
      [] p.kind = "badstr" -> "skip"
      [] p.kind = "null" -> "raise"

ParseRaises(page) == \E p \in page : ParseOutcome(p) = "raise"

\* The calendar date of the reference timezone at instant m.
LondonDate(m) == (m + LondonOffset(m \div (24 * 60))) \div (24 * 60)

\* Lines 240-242 for a well-formed record.  With the "Z" replaced by
\* "+00:00" fromisoformat gives an aware datetime, the instant date_gmt
\* denotes; without it the datetime is naive, and astimezone() takes a
\* naive datetime for the machine's local time.
ReservedDate(p) ==
    LondonDate(IF p.kind = "okz" THEN p.gmt ELSE p.gmt - machine_off)

ScheduledDates(page) ==
    {ReservedDate(p) : p \in {q \in page : ParseOutcome(q) = "date"}}

\* ------------------------------------------------------------ date steps
\* now + timedelta(days=0): the search starts from today.
TomorrowIsToday(d) == d

\* now + timedelta(days=1), then .replace(hour=6, minute=3, ...)
Tomorrow(d) == d + 1

\* check_date += timedelta(days=2): a free day can be stepped over.
NextDaySkipsOne(d) == d + 2

\* check_date = check_date.replace(...) without the += of line 249.
NextDayStuck(d) == d

\* check_date += timedelta(days=1), then .replace(hour=6, minute=3, ...)
NextDay(d) == d + 1

\* The while condition of line 248 cannot be evaluated more often than this
\* on a page of at most PerPage records.
IterCap == PerPage + 3

\* ---------------------------------------------------------- control flow
\* Where a request goes when the statement at `at` completes.
\* Line 366 is left out: no update is sent before the image is looked for.
NextLineSkipsImageStatus(at) ==
    CASE at = "l356" -> "l359"
      [] at = "l359" -> "l362"
      [] at = "l362" -> "l363"
      [] at = "l363" -> "l367"
      [] at = "l367" -> "l181"
      [] at = "l181" -> "l370"
      [] at = "l370" -> "l260"
      [] at = "l260" -> "l280"
      [] at = "l280" -> "l313"
      [] at = "l313" -> "l226"
      [] at = "l226" -> "l233"
      [] at = "l233" -> "l237"
      [] at = "l237" -> "l248"
      [] at = "l320" -> "l374"
      [] at = "l374" -> "l226"
      [] at = "l385" -> "done"
      [] at = "l388" -> "failed"

NextLine(at) ==
    CASE at = "l356" -> "l359"
      [] at = "l359" -> "l362"
      [] at = "l362" -> "l363"
      [] at = "l363" -> "l366"
      [] at = "l366" -> "l367"
      [] at = "l367" -> "l181"
      [] at = "l181" -> "l370"
      [] at = "l370" -> "l260"
      [] at = "l260" -> "l280"
      [] at = "l280" -> "l313"
      [] at = "l313" -> "l226"
      [] at = "l226" -> "l233"
      [] at = "l233" -> "l237"
      [] at = "l237" -> "l248"
      [] at = "l320" -> "l374"
      [] at = "l374" -> "l226"
      [] at = "l385" -> "done"
      [] at = "l388" -> "failed"

\* Where a request goes when the statement at `at` raises: every statement
\* of the try block leads to the except clause; the except clause's own
\* reply has no handler and ends the request.
\* A failed image search is logged and not re-raised: publishing goes on.
OnRaiseSwallowedInImageSearch(at) ==
    IF at = "l388" THEN "failed" ELSE IF at = "l181" THEN "l370" ELSE "l388"

\* A failed post creation is attempted again instead of being raised.
OnRaiseRetriesPostCreation(at) ==
    IF at = "l388" THEN "failed" ELSE IF at = "l320" THEN "l320" ELSE "l388"

OnRaise(at) == IF at = "l388" THEN "failed" ELSE "l388"

Finished == {"done", "failed"}

\* "gone": a request that ended before a later one was dispatched.
Ended == Finished \cup {"gone"}

\* Application.builder()...build() sets no concurrent_updates and the
\* handlers block: an update is handled when the earlier ones have ended.
\* concurrent_updates(True): every update is handled as it arrives.
CanDispatchConcurrently(r) == TRUE

CanDispatch(r) == \A q \in Requests : q < r => pc[q] \in Ended

Event(op, ok) == [op |-> op, ok |-> ok]

\* A statement that either completes or raises, recorded in the log.
Step(r, at, op) ==
    /\ pc[r] = at
    /\ \E ok \in BOOLEAN :
        /\ log' = [log EXCEPT ![r] = Append(@, Event(op, ok))]
        /\ pc' = [pc EXCEPT ![r] = IF ok THEN NextLine(at) ELSE OnRaise(at)]
        /\ err' = [err EXCEPT ![r] = IF ok \/ at = "l388" THEN @ ELSE op]

\* ---------------------------------------------------------------- Init
NoText ==
    /\ field = "content"
    /\ raw = <<>>
    /\ value = <<>>
    /\ formatted = <<>>
    /\ tpc = "none"
    /\ probe = <<>>
    /\ prev = <<>>
    /\ calls = 0

PipelineInit(backends) ==
    /\ today = 0
    /\ posts \in backends
    /\ pc = [r \in Requests |-> "idle"]
    /\ caller = [r \in Requests |-> "none"]
    /\ err = [r \in Requests |-> "none"]
    /\ log = [r \in Requests |-> <<>>]
    /\ nowDate = [r \in Requests |-> NoDate]
    /\ check_date = [r \in Requests |-> NoDate]
    /\ scheduled_posts = [r \in Requests |-> {}]
    /\ scheduled_dates = [r \in Requests |-> {}]
    /\ iters = [r \in Requests |-> 0]
    /\ publication_date = [r \in Requests |-> NoDate]
    /\ announced = [r \in Requests |-> NoDate]
    /\ created = [r \in Requests |-> NoDate]
    /\ collided = [r \in Requests |-> FALSE]
    /\ media = {}
    /\ tzinfo = [r \in Requests |-> 0]
    /\ reflected = [r \in Requests |-> FALSE]

Init ==
    /\ \/ PipelineInit(InitBackends) /\ machine_off = 0
       \/ PipelineInit(ZonedBackends) /\ machine_off \in MachineOffsets
    /\ NoText

\* -------------------------------------------------------------- actions
\* Midnight passes in the reference timezone; posts of past days are no
\* longer 'future'.
Tick ==
    /\ today < MaxToday
    /\ today' = today + 1
    /\ posts' = {p \in posts : p.day >= today + 1}
    /\ UNCHANGED <<pc, caller, err, log, resolverVars, publication_date,
                   announced, created, collided>>
    /\ UNCHANGED restFrame

\* Before the first request, other authors have scheduled a backlog on the
\* backend, one post a day: as many as a page of the listing holds, or one
\* more.
Backlog ==
    /\ posts = {}
    /\ today = 0
    /\ \A r \in Requests : pc[r] = "idle"
    /\ \E k \in {PerPage, PerPage + 1} : posts' = FullBackend(k)
    /\ UNCHANGED <<today, pc, caller, err, log, resolverVars, publication_date,
                   announced, created, collided>>
    /\ UNCHANGED restFrame

\* The dispatcher hands update r to handle_topic.  What is recorded of the
\* requests that have ended is dropped: nothing of them is left in the
\* process but the backend's posts.
Forget(f, init) == [q \in Requests |-> IF pc[q] \in Finished THEN init ELSE f[q]]

Dispatch(r) ==
    /\ pc[r] = "idle"
    /\ CanDispatch(r)
    /\ pc' = [q \in Requests |-> IF q = r THEN "l356"
                                ELSE IF pc[q] \in Finished THEN "gone" ELSE pc[q]]
    /\ caller' = Forget(caller, "none")
    /\ err' = Forget(err, "none")
    /\ log' = Forget(log, <<>>)
    /\ publication_date' = Forget(publication_date, NoDate)
    /\ announced' = Forget(announced, NoDate)
    /\ created' = Forget(created, NoDate)
    /\ collided' = Forget(collided, FALSE)
    /\ UNCHANGED <<today, posts, resolverVars>>
    /\ media' = {q \in media : pc[q] \notin Finished}
    /\ reflected' = Forget(reflected, FALSE)
    /\ UNCHANGED <<textVars, machine_off, tzinfo>>

stepFrame == <<today, posts, caller, resolverVars, publication_date,
               announced, created, collided, machine_off, tzinfo, reflected,
               textVars>>

SendStart(r) == Step(r, "l356", "reply_start") /\ UNCHANGED <<stepFrame, media>>

Construct(r) == Step(r, "l359", "construct") /\ UNCHANGED <<stepFrame, media>>

SendGenerating(r) == Step(r, "l362", "reply_generating") /\ UNCHANGED <<stepFrame, media>>

GenerateArticle(r) == Step(r, "l363", "generate_article") /\ UNCHANGED <<stepFrame, media>>

SendImage(r) == Step(r, "l366", "reply_image") /\ UNCHANGED <<stepFrame, media>>

ImageDescribe(r) == Step(r, "l367", "image_describe") /\ UNCHANGED <<stepFrame, media>>

ImageSearch(r) == Step(r, "l181", "image_search") /\ UNCHANGED <<stepFrame, media>>

SendPublishing(r) == Step(r, "l370", "reply_publishing") /\ UNCHANGED <<stepFrame, media>>

Download(r) == Step(r, "l260", "download") /\ UNCHANGED <<stepFrame, media>>

\* The media POST of lines 280-284: a 201 leaves a new item in the library.
\* Nothing in the file ever sends a DELETE for it.
Upload(r) ==
    /\ Step(r, "l280", "upload")
    /\ media' = IF pc'[r] = NextLine("l280") THEN media \cup {r} ELSE media
    /\ UNCHANGED stepFrame

\* publication_date = await self._find_next_available_date()   (line 313)
PublishResolve(r) ==
    /\ pc[r] = "l313"
    /\ pc' = [pc EXCEPT ![r] = NextLine("l313")]
    /\ caller' = [caller EXCEPT ![r] = "publish"]
    /\ UNCHANGED <<today, posts, err, log, resolverVars, publication_date,
                   announced, created, collided>>
    /\ UNCHANGED restFrame

\* publication_date = await generator._find_next_available_date() (line 374)
HandlerResolve(r) ==
    /\ pc[r] = "l374"
    /\ pc' = [pc EXCEPT ![r] = NextLine("l374")]
    /\ caller' = [caller EXCEPT ![r] = "handler"]
    /\ UNCHANGED <<today, posts, err, log, resolverVars, publication_date,
                   announced, created, collided>>
    /\ UNCHANGED restFrame

\* Lines 226-230: read now, start from tomorrow.
FnadNow(r) ==
    /\ pc[r] = "l226"
    /\ pc' = [pc EXCEPT ![r] = NextLine("l226")]
    /\ nowDate' = [nowDate EXCEPT ![r] = today]
    /\ check_date' = [check_date EXCEPT ![r] = Tomorrow(today)]
    /\ tzinfo' = [tzinfo EXCEPT ![r] = LondonOffset(today)]
    /\ scheduled_posts' = [scheduled_posts EXCEPT ![r] = {}]
    /\ scheduled_dates' = [scheduled_dates EXCEPT ![r] = {}]
    /\ iters' = [iters EXCEPT ![r] = 0]
    /\ UNCHANGED <<today, posts, caller, err, log, publication_date,
                   announced, created, collided>>
    /\ UNCHANGED <<textVars, media, machine_off, reflected>>

\* Line 233, _get_scheduled_posts: a page of the future posts, or [] when
\* the call fails (non-200 status, or an exception).
FnadList(r) ==
    /\ pc[r] = "l233"
    /\ \E ok \in BOOLEAN :
        /\ log' = [log EXCEPT ![r] = Append(@, Event("list", ok))]
        /\ \E page \in (IF ok THEN Pages(posts) ELSE {{}}) :
              scheduled_posts' = [scheduled_posts EXCEPT ![r] = page]
    /\ pc' = [pc EXCEPT ![r] = NextLine("l233")]
    /\ UNCHANGED <<today, posts, caller, err, nowDate, check_date,
                   scheduled_dates, iters, publication_date, announced,
                   created, collided>>
    /\ UNCHANGED restFrame

\* Lines 236-245: the dates of the page's records; an exception the except
\* clause of line 243 does not name leaves the function.
FnadParse(r) ==
    /\ pc[r] = "l237"
    /\ IF ParseRaises(scheduled_posts[r])
       THEN /\ pc' = [pc EXCEPT ![r] = OnRaise("l237")]
            /\ err' = [err EXCEPT ![r] = "parse"]
            /\ nowDate' = [nowDate EXCEPT ![r] = NoDate]
            /\ check_date' = [check_date EXCEPT ![r] = NoDate]
            /\ scheduled_posts' = [scheduled_posts EXCEPT ![r] = {}]
            /\ UNCHANGED scheduled_dates
       ELSE /\ pc' = [pc EXCEPT ![r] = NextLine("l237")]
            /\ scheduled_dates' = [scheduled_dates EXCEPT ![r] =
                                     ScheduledDates(scheduled_posts[r])]
            /\ UNCHANGED <<err, nowDate, check_date, scheduled_posts>>
    /\ UNCHANGED <<today, posts, caller, log, iters, publication_date,
                   announced, created, collided>>
    /\ UNCHANGED restFrame

\* Lines 248-250: one evaluation of the while condition.
FnadLoop(r) ==
    /\ pc[r] = "l248"
    /\ iters[r] < IterCap
    /\ iters' = [iters EXCEPT ![r] = @ + 1]
    /\ IF check_date[r] \in scheduled_dates[r]
       THEN /\ check_date' = [check_date EXCEPT ![r] = NextDay(@)]
            /\ UNCHANGED pc
       ELSE /\ pc' = [pc EXCEPT ![r] = "l252"]
            /\ UNCHANGED check_date
    /\ UNCHANGED <<today, posts, caller, err, log, nowDate, scheduled_posts,
                   scheduled_dates, publication_date, announced, created,
                   collided>>
    /\ UNCHANGED restFrame

\* Line 252: return check_date to the caller; the locals end with the call.
FnadReturn(r) ==
    /\ pc[r] = "l252"
    /\ IF caller[r] = "publish"
       THEN /\ publication_date' = [publication_date EXCEPT ![r] = check_date[r]]
            /\ pc' = [pc EXCEPT ![r] = "l320"]
            /\ UNCHANGED announced
            /\ UNCHANGED reflected
       ELSE /\ announced' = [announced EXCEPT ![r] = check_date[r]]
            /\ pc' = [pc EXCEPT ![r] = "l385"]
            /\ reflected' = [reflected EXCEPT ![r] =
                                \E p \in scheduled_posts[r] : p.by = r]
            /\ UNCHANGED publication_date
    /\ nowDate' = [nowDate EXCEPT ![r] = NoDate]
    /\ check_date' = [check_date EXCEPT ![r] = NoDate]
    /\ scheduled_posts' = [scheduled_posts EXCEPT ![r] = {}]
    /\ scheduled_dates' = [scheduled_dates EXCEPT ![r] = {}]
    /\ iters' = [iters EXCEPT ![r] = 0]
    /\ UNCHANGED <<today, posts, caller, err, log, created, collided>>
    /\ UNCHANGED <<textVars, media, machine_off, tzinfo>>

\* Lines 317-331: the post is created in 'future' status on the resolved
\* date, or the backend refuses it.
CreatePost(r) ==
    /\ pc[r] = "l320"
    /\ \E ok \in BOOLEAN :
        /\ log' = [log EXCEPT ![r] = Append(@, Event("create_post", ok))]
        /\ pc' = [pc EXCEPT ![r] = IF ok THEN NextLine("l320") ELSE OnRaise("l320")]
        /\ err' = [err EXCEPT ![r] = IF ok THEN @ ELSE "create_post"]
        /\ IF ok
           THEN /\ posts' = posts \cup
                        {PostAt(r, "ok", publication_date[r],
                                DateGmt(publication_date[r], tzinfo[r]))}
                /\ created' = [created EXCEPT ![r] = publication_date[r]]
                /\ collided' = [collided EXCEPT ![r] =
                                  publication_date[r] \in Days(posts)]
           ELSE UNCHANGED <<posts, created, collided>>
    /\ UNCHANGED <<today, caller, resolverVars, publication_date, announced>>
    /\ UNCHANGED restFrame

SendSuccess(r) == Step(r, "l385", "reply_success") /\ UNCHANGED <<stepFrame, media>>

\* Lines 387-390: the except clause replies with the error.
Except(r) == Step(r, "l388", "reply_error") /\ UNCHANGED <<stepFrame, media>>

Next ==
    \/ Tick
    \/ Backlog
    \/ \E r \in Requests :
        \/ Dispatch(r)
        \/ SendStart(r)
        \/ Construct(r)
        \/ SendGenerating(r)
        \/ GenerateArticle(r)
        \/ SendImage(r)
        \/ ImageDescribe(r)
        \/ ImageSearch(r)
        \/ SendPublishing(r)
        \/ Download(r)
        \/ Upload(r)
        \/ PublishResolve(r)
        \/ HandlerResolve(r)
        \/ FnadNow(r)
        \/ FnadList(r)
        \/ FnadParse(r)
        \/ FnadLoop(r)
        \/ FnadReturn(r)
        \/ CreatePost(r)
        \/ SendSuccess(r)
        \/ Except(r)

Spec == Init /\ [][Next]_vars

\* ------------------------------------------------------------- texts
\* A text is a sequence of characters.  self.qloga_app_url (line 59):
QlogaAppUrl ==
    <<
    "h", "t", "t", "p", "s", ":", "/", "/", "p", "l", "a", "y",
    ".", "g", "o", "o", "g", "l", "e", ".", "c", "o", "m", "/",
    "s", "t", "o", "r", "e", "/", "a", "p", "p", "s", "/", "d",
    "e", "t", "a", "i", "l", "s", "?", "i", "d", "=", "e", "a",
    "c", ".", "q", "l", "o", "g", "a", ".", "a", "n", "d", "r",
    "o", "i", "d" >>

\* The replacement of line 71: <a href="{self.qloga_app_url}">QLOGA</a>
Link ==
    <<"<", "a", " ", "h", "r", "e", "f", "=", "\"">> \o QlogaAppUrl
        \o <<"\"", ">", "Q", "L", "O", "G", "A", "<", "/", "a", ">">>

\* The pattern of line 67, r'qloga' under re.IGNORECASE.
Pattern == <<"q", "l", "o", "g", "a">>

Fold(c) ==
    CASE c = "Q" -> "q"
      [] c = "L" -> "l"
      [] c = "O" -> "o"
      [] c = "G" -> "g"
      [] c = "A" -> "a"
      [] OTHER -> c

MatchAt(t, i) ==
    /\ i + Len(Pattern) - 1 <= Len(t)
    /\ \A k \in 1..Len(Pattern) : Fold(t[i + k - 1]) = Pattern[k]

\* pattern.sub(replace_func, text): the matches are found left to right in
\* the input, without overlap; the text between them is kept and each match
\* is replaced by the link.
RECURSIVE SubFrom(_, _)
SubFrom(t, i) ==
    LET starts == {j \in i..Len(t) : MatchAt(t, j)}
    IN  IF starts = {} THEN SubSeq(t, i, Len(t))
        ELSE LET j == CHOOSE m \in starts : \A n \in starts : m <= n
             IN  SubSeq(t, i, j - 1) \o Link \o SubFrom(t, j + Len(Pattern))

\* _format_qloga_mentions (lines 64-73)
FormatQlogaMentions(t) == SubFrom(t, 1)

HasMention(t) == \E i \in 1..Len(t) : MatchAt(t, i)

\* Lines 138-141.
TitleMax == 60
TitleKeep == 57
SubtitleMax == 120
SubtitleKeep == 117

Ellipsis == <<".", ".", ".">>

\* The title is cut to its limit and the ellipsis added after it.
TrimAtLimit(f, v) ==
    IF f = "title" /\ Len(v) > TitleMax THEN SubSeq(v, 1, TitleMax) \o Ellipsis
    ELSE IF f = "subtitle" /\ Len(v) > SubtitleMax
         THEN SubSeq(v, 1, SubtitleMax) \o Ellipsis
    ELSE v

\* if len(article['title']) > 60: article['title'] = article['title'][:57] + "..."
\* if len(article['subtitle']) > 120: ... [:117] + "..."
Trim(f, v) ==
    IF f = "title" /\ Len(v) > TitleMax THEN SubSeq(v, 1, TitleKeep) \o Ellipsis
    ELSE IF f = "subtitle" /\ Len(v) > SubtitleMax
         THEN SubSeq(v, 1, SubtitleKeep) \o Ellipsis
    ELSE v

\* ------------------------------------------------------ generated texts
MaxChunks == 2
MaxCalls == 2

Fields == {"title", "subtitle", "content"}

\* The pieces a generated text is made of: the brand in three spellings, a
\* piece of it, and another character.
Chunks == {<<"q", "l", "o", "g", "a">>, <<"Q", "l", "o", "g", "a">>,
           <<"Q", "L", "O", "G", "A">>, <<"q", "l", "o">>, <<"-">>}

RECURSIVE Cores(_)
Cores(n) ==
    IF n = 0 THEN {<<>>}
    ELSE Cores(n - 1) \cup {c \o k : c \in Cores(n - 1), k \in Chunks}

Pad(n) == [i \in 1..n |-> "x"]

\* Lengths that put a text just below, at and just above each limit.
PadLens == {0, TitleKeep - 3, TitleMax - 1, TitleMax, SubtitleKeep - 3,
            SubtitleMax - 1, SubtitleMax}

GeneratedTexts == {Pad(n) \o c : n \in PadLens, c \in Cores(MaxChunks)}

\* ------------------------------------------- the generated article's text
\* One field of the article returned by the completion (line 130), and the
\* same text handed to _format_qloga_mentions.
InitText ==
    /\ PipelineInit({{}})
    /\ machine_off = 0
    /\ field \in Fields
    /\ raw \in GeneratedTexts
    /\ value = raw
    /\ formatted = <<>>
    /\ tpc = "l133"
    /\ probe = raw
    /\ prev = raw
    /\ calls = 0

\* Lines 133-135: article[field] = self._format_qloga_mentions(article[field])
FormatField ==
    /\ tpc = "l133"
    /\ value' = FormatQlogaMentions(value)
    /\ formatted' = FormatQlogaMentions(value)
    /\ tpc' = "l138"
    /\ UNCHANGED <<field, raw, probe, prev, calls, pipelineVars>>

\* Lines 138-141: the title and the subtitle are trimmed to their limits.
TrimField ==
    /\ tpc = "l138"
    /\ value' = Trim(field, value)
    /\ tpc' = "l143"
    /\ UNCHANGED <<field, raw, formatted, probe, prev, calls, pipelineVars>>

\* A call of _format_qloga_mentions on the result of the call before it.
FormatMentions ==
    /\ calls < MaxCalls
    /\ prev' = probe
    /\ probe' = FormatQlogaMentions(probe)
    /\ calls' = calls + 1
    /\ UNCHANGED <<field, raw, value, formatted, tpc, pipelineVars>>

NextText ==
    \/ FormatField
    \/ TrimField
    \/ FormatMentions

SpecText == InitText /\ [][NextText]_vars

\* ------------------------------------------------------------ histories
Replies == {"reply_start", "reply_generating", "reply_image",
            "reply_publishing", "reply_success", "reply_error"}

\* The events of r's log that are pipeline steps (remote calls), in order.
IsStep(e) == e.op \notin Replies /\ e.op # "construct"

StepOps(r) == LET steps == SelectSeq(log[r], IsStep)
              IN  [i \in 1..Len(steps) |-> steps[i].op]

IsPrefix(s, t) == Len(s) <= Len(t) /\ \A i \in 1..Len(s) : s[i] = t[i]

\* An event whose statement raised: a failed listing call does not, it is
\* answered with [] (lines 214-221).
Raised(e) == ~e.ok /\ e.op # "list"

Happened(r, op) == \E i \in 1..Len(log[r]) : log[r][i].op = op

Succeeded(r, op) == \E i \in 1..Len(log[r]) : log[r][i] = Event(op, TRUE)

Count(r, ops) == Cardinality({i \in 1..Len(log[r]) : log[r][i].op \in ops /\ log[r][i].ok})

\* The remote calls of a request: the two OpenAI completions (117, 160), the
\* Unsplash search (181), the image download (260), the media upload (280),
\* the listing of future posts (205) and the post creation (320).
RemoteOps == {"generate_article", "image_describe", "image_search", "download",
              "upload", "list", "create_post"}

\* The progress messages of lines 356, 362, 366 and 370.
StatusReplies == {"reply_start", "reply_generating", "reply_image",
                  "reply_publishing"}

IsStatus(e) == e.op \in StatusReplies /\ e.ok

\* The status updates r sent between its last remote call before position i
\* of its log (or the start of the request) and position i, in order.
StatusJustBefore(r, i) ==
    LET before == {j \in 1..(i - 1) : log[r][j].op \in RemoteOps}
        from == IF before = {} THEN 1
                ELSE 1 + CHOOSE j \in before : \A k \in before : k <= j
        sent == SelectSeq(SubSeq(log[r], from, i - 1), IsStatus)
    IN  [k \in 1..Len(sent) |-> sent[k].op]

IsStatusOrCall(e) == e.op \in StatusReplies \cup RemoteOps

\* The status updates and remote calls of r, in the order r issued them.
StatusAndCalls(r) == LET evs == SelectSeq(log[r], IsStatusOrCall)
                     IN  [i \in 1..Len(evs) |-> evs[i].op]

\* The status updates and remote calls of handle_topic, in program order.
StatusOrder == <<"reply_start", "reply_generating", "generate_article",
                 "reply_image", "image_describe", "image_search",
                 "reply_publishing", "download", "upload", "list",
                 "create_post", "list">>

\* The first remote call of article generation, of image discovery, of slot
\* resolution and of publish, as the claimed sequence names the steps.
FirstCallOfStep == {"generate_article", "image_describe", "list", "download"}

\* How many times r has issued op, whatever the outcome.
Issued(r, op) == Cardinality({i \in 1..Len(log[r]) : log[r][i].op = op})

\* ---------------------------------------------------------------- claims

(* C1: whenever the slot resolver returns, the date it returns is the       *)
(* least date that is at least the day after date(now) and is not among the *)
(* reserved dates: it is later than date(now), it is not reserved, every    *)
(* date between tomorrow and it is reserved, and with nothing reserved it   *)
(* is exactly tomorrow.                                                     *)
C1_MinimalFreeDate ==
    \A r \in Requests : pc[r] = "l252" =>
        /\ check_date[r] >= nowDate[r] + 1
        /\ check_date[r] \notin scheduled_dates[r]
        /\ \A d \in (nowDate[r] + 1)..(check_date[r] - 1) : d \in scheduled_dates[r]
        /\ scheduled_dates[r] = {} => check_date[r] = nowDate[r] + 1

\* The resolver returns tomorrow+2 after stepping over tomorrow and tomorrow+1.
C1_Witness ==
    \E r \in Requests :
        /\ pc[r] = "l252"
        /\ check_date[r] = nowDate[r] + 3
        /\ {nowDate[r] + 1, nowDate[r] + 2} \subseteq scheduled_dates[r]

(* C2 (as claimed): a post the bot creates is scheduled on a date on which  *)
(* no other post was in 'future' status when it was created, so no post of  *)
(* the bot shares its date with another scheduled post.                     *)
C2_NoCollision ==
    /\ \A r \in Requests : created[r] # NoDate => ~collided[r]
    /\ \A p, q \in posts : (p # q /\ p.by # NoRequest) => p.day # q.day

(* C3 (as claimed): the steps of a request run in the order article         *)
(* generation, image discovery, slot resolution, publish, and no publishing *)
(* action on the backend (image download, media upload, post creation)      *)
(* happens before the slot resolution has returned.                         *)
ClaimedOrder == <<"generate_article", "image_describe", "image_search", "list",
                  "download", "upload", "create_post">>

C3_SlotBeforePublishing ==
    \A r \in Requests :
        /\ IsPrefix(StepOps(r), ClaimedOrder)
        /\ Happened(r, "upload") => publication_date[r] # NoDate

(* C3 (amended): the steps of a request run in the order article            *)
(* generation, image discovery, image download, media upload, slot          *)
(* resolution, post creation, second slot resolution; a step starts only    *)
(* when no earlier statement of the request has raised; the post is created *)
(* only after the slot resolution has returned, and the slot resolution     *)
(* starts only after the media upload has succeeded.                        *)
CodeOrder == <<"generate_article", "image_describe", "image_search", "download",
               "upload", "list", "create_post", "list">>

C3_StepOrder ==
    \A r \in Requests :
        /\ IsPrefix(StepOps(r), CodeOrder)
        /\ \A i, j \in 1..Len(log[r]) :
              (i < j /\ Raised(log[r][i])) => log[r][j].op = "reply_error"
        /\ Happened(r, "create_post") => publication_date[r] # NoDate
        /\ Happened(r, "list") => Succeeded(r, "upload")

\* A request has uploaded its media and is resolving its slot.
C3_Witness ==
    \E r \in Requests :
        /\ pc[r] = "l248"
        /\ Succeeded(r, "upload")
        /\ publication_date[r] = NoDate

(* C4 (as claimed): a request that has ended has sent exactly one final     *)
(* message, the success message or the failure message; after a statement   *)
(* has raised, nothing follows but the one failure message.                 *)
C4_ExactlyOneFinalMessage ==
    \A r \in Requests :
        /\ pc[r] \in Finished => Count(r, {"reply_success", "reply_error"}) = 1
        /\ pc[r] = "failed" => Count(r, {"reply_error"}) = 1
        /\ \A i, j \in 1..Len(log[r]) :
              (i < j /\ Raised(log[r][i])) => log[r][j].op = "reply_error"

(* C5 (as claimed): the slot resolution never aborts because of the         *)
(* reservation data: no request ends in the parse of the listed records,    *)
(* and when the loop starts the reserved dates are those of the well-formed *)
(* records of the page.                                                     *)
C5_ResolutionNeverAborts ==
    \A r \in Requests :
        /\ err[r] # "parse"
        /\ pc[r] = "l248" =>
              scheduled_dates[r] = {p.day : p \in {q \in scheduled_posts[r] : q.kind = "ok"}}

C7_AfterToday ==
    \A r \in Requests :
        /\ pc[r] = "l252" => check_date[r] > nowDate[r]
        /\ publication_date[r] # NoDate => publication_date[r] > 0
        /\ announced[r] # NoDate => announced[r] > 0

\* The resolver, called on a later day, returns that day's tomorrow.
C7_Witness ==
    \E r \in Requests :
        /\ pc[r] = "l252"
        /\ nowDate[r] > 0
        /\ check_date[r] = nowDate[r] + 1

(* C8: the while condition of the slot resolver is evaluated at most        *)
(* |reserved dates| + 1 times (distinct dates counted).                     *)
C8_IterationBound ==
    \A r \in Requests : iters[r] <= Cardinality(scheduled_dates[r]) + 1

\* The loop ends on its third evaluation, after two reserved dates.
C8_Witness ==
    \E r \in Requests :
        /\ pc[r] = "l252"
        /\ Cardinality(scheduled_dates[r]) >= 2
        /\ iters[r] = Cardinality(scheduled_dates[r]) + 1

(* C9 (as claimed): brand-mention formatting is idempotent (a second call  *)
(* returns what the first returned) and case-insensitive ('qloga', 'Qloga' *)
(* and 'QLOGA' all become the one uppercase link).                          *)
C9_IdempotentCaseInsensitive ==
    /\ calls = 2 => probe = prev
    /\ (calls = 1 /\ prev \in {<<"q", "l", "o", "g", "a">>, <<"Q", "l", "o", "g", "a">>,
                               <<"Q", "L", "O", "G", "A">>}) => probe = Link

(* C10 (as claimed): a generated title longer than 60 characters is         *)
(* returned as its first 57 characters and '...', a generated title of at   *)
(* most 60 characters is returned as generated; the subtitle likewise with  *)
(* 120 and 117.                                                             *)
C10_TruncatesGenerated ==
    tpc = "l143" =>
        /\ field = "title" =>
              value = IF Len(raw) > 60 THEN SubSeq(raw, 1, 57) \o Ellipsis ELSE raw
        /\ field = "subtitle" =>
              value = IF Len(raw) > 120 THEN SubSeq(raw, 1, 117) \o Ellipsis ELSE raw

(* C10 (amended): the limits apply to the title as it is after the          *)
(* brand-mention formatting: a formatted title longer than 60 characters is *)
(* returned as its first 57 characters and '...' (60 in all), a formatted   *)
(* title of at most 60 characters is returned as formatted; so a generated  *)
(* title without a brand mention obeys the rule as claimed; the subtitle    *)
(* likewise with 120 and 117; a returned title is never longer than 60 and  *)
(* a returned subtitle never longer than 120.                               *)
LimitOf(f) == IF f = "title" THEN 60 ELSE 120

C10_TruncatesFormatted ==
    (tpc = "l143" /\ field \in {"title", "subtitle"}) =>
        /\ Len(value) <= LimitOf(field)
        /\ Len(formatted) > LimitOf(field) =>
              /\ Len(value) = LimitOf(field)
              /\ SubSeq(value, 1, LimitOf(field) - 3) = SubSeq(formatted, 1, LimitOf(field) - 3)
              /\ SubSeq(value, LimitOf(field) - 2, LimitOf(field)) = <<".", ".", ".">>
        /\ Len(formatted) <= LimitOf(field) => value = formatted
        /\ ~HasMention(raw) => formatted = raw

\* A title of at most 60 characters with a brand mention has been cut inside
\* the link that replaced the mention.
C10_Witness ==
    /\ tpc = "l143"
    /\ field = "title"
    /\ Len(raw) <= 60
    /\ HasMention(raw)
    /\ Len(formatted) > 60
    /\ Len(value) = 60

C12_OneStatusPerStep ==
    \A r \in Requests : \A i \in 1..Len(log[r]) :
        (/\ log[r][i].op \in FirstCallOfStep
         /\ \A j \in 1..(i - 1) : log[r][j].op # log[r][i].op)
            => Len(StatusJustBefore(r, i)) = 1

(* C12 (amended): the status updates and remote calls of a request are a  *)
(* prefix of: starting update, generating update, article generation, image *)
(* update, image discovery (description, search), publishing update, image  *)
(* download, media upload, slot resolution's listing, post creation, second *)
(* listing.  So each of the four updates is sent at most once, two of them  *)
(* precede article generation, one precedes image discovery and one         *)
(* precedes publish, each before the first remote call of its step, and no  *)
(* update is sent between the media upload and slot resolution.             *)
C12_StatusBeforeStep ==
    \A r \in Requests : IsPrefix(StatusAndCalls(r), StatusOrder)

\* A request that sent its four updates and has begun slot resolution, the
\* last update before the listing being the publishing one.
C12_Witness ==
    \E r \in Requests :
        /\ Happened(r, "list")
        /\ Count(r, StatusReplies) = 4
        /\ \E i \in 1..Len(log[r]) :
              /\ log[r][i].op = "list"
              /\ StatusJustBefore(r, i) = <<>>

(* C13 (as claimed): the post a request creates is scheduled at 06:03:00    *)
(* of the reference timezone on the resolved date: the UTC timestamp sent   *)
(* as its date_gmt is 06:03 of that date less the UTC offset in force in    *)
(* the reference timezone on that date, also when the clocks change between *)
(* now and the resolved date.                                               *)
C13_SlotAtFixedWallClock ==
    \A p \in posts : p.by \in Requests =>
        p.gmt = DateGmt(p.day, LondonOffset(p.day))

(* C14 (as claimed): the reserved dates the slot resolver uses are the      *)
(* calendar dates, in the reference timezone, of the instants the listed    *)
(* well-formed records' date_gmt denote, whatever the machine's time zone   *)
(* and whether or not the string carries a UTC designator.                  *)
C14_ReservedDateOfInstant ==
    \A r \in Requests : pc[r] = "l248" =>
        scheduled_dates[r] =
            {LondonDate(p.gmt) : p \in {q \in scheduled_posts[r] :
                                          q.kind \in {"ok", "okz"}}}

(* C15 (as claimed): when a request has sent its success message and the    *)
(* listing made for it held the post the request created, the date the      *)
(* message announces is the date that post was scheduled on.                *)
C15_AnnouncedIsScheduled ==
    \A r \in Requests :
        (Succeeded(r, "reply_success") /\ reflected[r]) =>
            announced[r] = created[r]

(* C16 (as claimed): a request that reaches the except clause, or has sent  *)
(* its failure message, has created no post.                                *)
C16_FailureMeansNoPost ==
    \A r \in Requests :
        (pc[r] \in {"l388", "failed"} \/ Happened(r, "reply_error")) =>
            created[r] = NoDate
====
